---- MODULE Spec2Model ----
(***************************************************************************)
(* Chandelier Exit scanner (src/chandelier_exit_scanner.py).               *)
(*                                                                         *)
(* Arrays keep the source's 0-based indices: a window of n candles is a    *)
(* function on 0..n-1.  Prices are integers.  The ATR recurrence divides   *)
(* by the period at every bar, so every computed level (ATR, stops) is     *)
(* held multiplied by Scale(df) = period^(n-1); with that factor the       *)
(* divisions are exact and the comparisons are those of the source.  For   *)
(* period 1 and 2 every value is a dyadic rational of a few bits, so the   *)
(* float64 arithmetic of the source is exact on these inputs too; larger   *)
(* periods are run on windows of one constant price only, where every      *)
(* value is 0 or that price.                                               *)
(* A float that may be NaN is a record [nan, v].                           *)
(***************************************************************************)
EXTENDS Integers, Sequences, FiniteSets, TLC

VARIABLES
    entry,          \* which function was called: "main" or "chandelier_exit"
    pc,             \* position of the run
    period,         \* ATR_PERIOD
    mult,           \* ATR_MULT
    useClose,       \* USE_CLOSE
    awaitConfirm,   \* AWAIT_BAR_CONFIRM
    creds,          \* TELEGRAM_TOKEN and CHAT_ID are both set
    fetch,          \* how fetch_data ended: "pending", "ok" or the failure
    df,             \* the candle window check_signals / chandelier_exit holds
    result,         \* the frame chandelier_exit returned
    row,            \* the row check_signals read (None: none read yet)
    msg,            \* the alert check_signals built: "", "BUY" or "SELL"
    posts,          \* the messages handed to requests.post, in order
    delivery        \* how each post ended, in order

vars == <<entry, pc, period, mult, useClose, awaitConfirm, creds, fetch, df,
          result, row, msg, posts, delivery>>

----------------------------------------------------------------------------
(* Bounds of the model and the configuration the repository ships.         *)

MaxPrice == 3
MaxLen == 4
MaxPeriod == 2
MaxMult == 2

ATR_PERIOD == 1
ATR_MULT == 2
USE_CLOSE == TRUE
AWAIT_BAR_CONFIRM == TRUE
MinExtraCandles == 5

\* the configurations explored on every window: the shipped one and three
\* others; on the windows of one constant price, every one within the bounds
Periods == {ATR_PERIOD, ATR_PERIOD + 1}
Multipliers == {ATR_MULT - 1, ATR_MULT}
AllSettings == [period : 1..MaxPeriod, mult : 1..MaxMult, useClose : BOOLEAN]
Settings ==
    {[period |-> ATR_PERIOD, mult |-> ATR_MULT, useClose |-> USE_CLOSE],
     [period |-> ATR_PERIOD, mult |-> ATR_MULT - 1, useClose |-> ~USE_CLOSE],
     [period |-> ATR_PERIOD + 1, mult |-> ATR_MULT - 1, useClose |-> ~USE_CLOSE],
     [period |-> ATR_PERIOD + 1, mult |-> ATR_MULT, useClose |-> USE_CLOSE]}

----------------------------------------------------------------------------
(* Floats that may be NaN, and None.                                       *)

NaN == [nan |-> TRUE, v |-> 0]
Num(x) == [nan |-> FALSE, v |-> x]
isnan(x) == x.nan

None == [isNone |-> TRUE]
Some(x) == [isNone |-> FALSE, val |-> x]

Max2(a, b) == IF b > a THEN b ELSE a
Min2(a, b) == IF b < a THEN b ELSE a
Abs(x) == IF x < 0 THEN -x ELSE x

RECURSIVE Pow(_, _)
Pow(b, e) == IF e <= 0 THEN 1 ELSE b * Pow(b, e - 1)

Len0(f) == Cardinality(DOMAIN f)

\* the factor every computed level carries
Scale(d) == Pow(period, Len0(d) - 1)

----------------------------------------------------------------------------
(* compute_atr                                                             *)

\* tr: the row-wise max skips the NaN that shift(1) leaves at index 0
TrueRange(d, i) ==
    IF i = 0
    THEN d[0].High - d[0].Low
    ELSE Max2(Max2(d[i].High - d[i].Low, Abs(d[i].High - d[i - 1].Close)),
              Abs(d[i].Low - d[i - 1].Close))

\* ewm(alpha=1/p, adjust=False).mean(): y[0] = x[0],
\* y[i] = alpha * x[i] + (1 - alpha) * y[i-1]; acc holds y on 0..i-1
RECURSIVE Ewm(_, _, _, _)
Ewm(x, p, i, acc) ==
    IF i \notin DOMAIN x THEN acc
    ELSE LET y == IF i = 0 THEN x[0] ELSE (x[i] + (p - 1) * acc[i - 1]) \div p
         IN  Ewm(x, p, i + 1, [k \in 0..i |-> IF k = i THEN y ELSE acc[k]])

\* the ATR series, times Scale(d)
compute_atr(d, p) ==
    LET s  == Scale(d)
        tr == [i \in DOMAIN d |-> TrueRange(d, i) * s]
    IN  Ewm(tr, p, 0, << >>)

----------------------------------------------------------------------------
(* chandelier_exit                                                         *)

RECURSIVE MaxOver(_, _, _)
MaxOver(f, lo, hi) == IF lo = hi THEN f[lo] ELSE Max2(MaxOver(f, lo, hi - 1), f[hi])

RECURSIVE MinOver(_, _, _)
MinOver(f, lo, hi) == IF lo = hi THEN f[lo] ELSE Min2(MinOver(f, lo, hi - 1), f[hi])

\* mutant: the branches of the USE_CLOSE test swapped
HighSourceSwapped(d, k) == IF useClose THEN d[k].High ELSE d[k].Close

\* the column the rolling extremes are taken of
HighSource(d, k) == IF useClose THEN d[k].Close ELSE d[k].High
LowSource(d, k) == IF useClose THEN d[k].Close ELSE d[k].Low

\* rolling(ATR_PERIOD).max() / .min(), times Scale(d): NaN until the
\* rolling window is full
highest(d) ==
    LET s   == Scale(d)
        src == [k \in DOMAIN d |-> HighSource(d, k)]
    IN  [i \in DOMAIN d |->
            IF i < period - 1 THEN NaN
            ELSE Num(MaxOver(src, i - period + 1, i) * s)]

lowest(d) ==
    LET s   == Scale(d)
        src == [k \in DOMAIN d |-> LowSource(d, k)]
    IN  [i \in DOMAIN d |->
            IF i < period - 1 THEN NaN
            ELSE Num(MinOver(src, i - period + 1, i) * s)]

\* atr = ATR_MULT * compute_atr(df, ATR_PERIOD)
atrBand(d) == LET a == compute_atr(d, period) IN [i \in DOMAIN d |-> mult * a[i]]

\* x[i-1] if not np.isnan(x[i-1]) else seed
PrevOr(x, i, seed) == IF ~isnan(x[i - 1]) THEN x[i - 1].v ELSE seed

\* mutant: min where the long stop takes the max
LongStopNextMin(ls, ls_prev, close_prev) ==
    IF close_prev > ls_prev THEN Min2(ls, ls_prev) ELSE ls

\* long_stop[i] = max(ls, ls_prev) if Close[i-1] > ls_prev else ls
LongStopNext(ls, ls_prev, close_prev) ==
    IF close_prev > ls_prev THEN Max2(ls, ls_prev) ELSE ls

\* mutant: max where the short stop takes the min
ShortStopNextMax(ss, ss_prev, close_prev) ==
    IF close_prev < ss_prev THEN Max2(ss, ss_prev) ELSE ss

\* short_stop[i] = min(ss, ss_prev) if Close[i-1] < ss_prev else ss
ShortStopNext(ss, ss_prev, close_prev) ==
    IF close_prev < ss_prev THEN Min2(ss, ss_prev) ELSE ss

\* mutant: the bearish flip tested before the bullish one
NextDirectionBearFirst(close, ss_prev2, ls_prev2, dir_prev) ==
    IF close < ls_prev2 THEN -1
    ELSE IF close > ss_prev2 THEN 1
    ELSE dir_prev

\* mutant: the bearish flip tested with <= instead of <
NextDirectionNonStrict(close, ss_prev2, ls_prev2, dir_prev) ==
    IF close > ss_prev2 THEN 1
    ELSE IF close <= ls_prev2 THEN -1
    ELSE dir_prev

\* the if / elif / else that sets direction[i]
NextDirection(close, ss_prev2, ls_prev2, dir_prev) ==
    IF close > ss_prev2 THEN 1
    ELSE IF close < ls_prev2 THEN -1
    ELSE dir_prev

\* one iteration of the for loop
LoopBody(d, band, st, i) ==
    LET ls       == band.highest[i].v - band.atr[i]
        ls_prev  == PrevOr(st.long_stop, i, ls)
        ss       == band.lowest[i].v + band.atr[i]
        ss_prev  == PrevOr(st.short_stop, i, ss)
        cprev    == d[i - 1].Close * band.scale
        ss_prev2 == PrevOr(st.short_stop, i, ss)
        ls_prev2 == PrevOr(st.long_stop, i, ls)
    IN  [long_stop  |-> [st.long_stop EXCEPT ![i] = Num(LongStopNext(ls, ls_prev, cprev))],
         short_stop |-> [st.short_stop EXCEPT ![i] = Num(ShortStopNext(ss, ss_prev, cprev))],
         direction  |-> [st.direction EXCEPT ![i] =
                            NextDirection(d[i].Close * band.scale, ss_prev2, ls_prev2,
                                          st.direction[i - 1])]]

\* for i in range(ATR_PERIOD, n)
RECURSIVE Loop(_, _, _, _)
Loop(d, band, st, i) ==
    IF i >= band.n THEN st ELSE Loop(d, band, LoopBody(d, band, st, i), i + 1)

\* mutant: the shifted direction filled with -1
DirPrevSeedBearish(direction, i) == IF i = 0 THEN -1 ELSE direction[i - 1]

\* pd.Series(direction).shift(1).fillna(1)
DirPrev(direction, i) == IF i = 0 THEN 1 ELSE direction[i - 1]

\* mutants: a BUY on any change of direction; a SELL on every bearish bar
BuySignalAnyFlip(dir, dir_prev) == dir # dir_prev
SellSignalLevel(dir, dir_prev) == dir = -1

BuySignal(dir, dir_prev) == (dir = 1) /\ (dir_prev = -1)
SellSignal(dir, dir_prev) == (dir = -1) /\ (dir_prev = 1)

chandelier_exit(d) ==
    LET band == [atr |-> atrBand(d), highest |-> highest(d), lowest |-> lowest(d),
                 scale |-> Scale(d), n |-> Len0(d)]
        st0 == [long_stop  |-> [i \in DOMAIN d |-> NaN],
                short_stop |-> [i \in DOMAIN d |-> NaN],
                direction  |-> [i \in DOMAIN d |-> 1]]
        st  == Loop(d, band, st0, period)
    IN  [longStop   |-> st.long_stop,
         shortStop  |-> st.short_stop,
         dir        |-> st.direction,
         buySignal  |-> [i \in DOMAIN d |->
                            BuySignal(st.direction[i], DirPrev(st.direction, i))],
         sellSignal |-> [i \in DOMAIN d |->
                            SellSignal(st.direction[i], DirPrev(st.direction, i))]]

----------------------------------------------------------------------------
(* fetch_data                                                              *)

\* what requests.get and the decoding of its body can come to
FailureKinds == {"transport", "http_status", "malformed", "kraken_error"}

\* len(raw) < ATR_PERIOD + 5
TooShort(raw) == Len0(raw) < period + MinExtraCandles

\* mutant: the candle count is not checked
fetch_dataNoLengthCheck(resp) ==
    IF resp.kind \in FailureKinds THEN None ELSE Some(resp.raw)

\* the value fetch_data returns for a response
fetch_data(resp) ==
    IF resp.kind \in FailureKinds THEN None
    ELSE IF TooShort(resp.raw) THEN None
    ELSE Some(resp.raw)

\* why fetch_data returned what it did
FetchOutcome(resp) ==
    IF resp.kind \in FailureKinds THEN resp.kind
    ELSE IF Len0(resp.raw) < period + MinExtraCandles THEN "short"
    ELSE "ok"

----------------------------------------------------------------------------
(* check_signals                                                           *)

\* mutant: the last row whatever AWAIT_BAR_CONFIRM says
RowIndexLast(n) == n - 1

\* idx = -2 if AWAIT_BAR_CONFIRM else -1, as result.iloc[idx] resolves it
RowIndex(n) == IF awaitConfirm THEN n - 2 ELSE n - 1

\* the if / elif / else over the selected row
Alert(r) ==
    IF r.buySignal THEN "BUY"
    ELSE IF r.sellSignal THEN "SELL"
    ELSE ""

----------------------------------------------------------------------------
(* Inputs                                                                  *)

\* candles with Low <= Close <= High: flat ones, and ones that reach one
\* price step above and below their close
Candles ==
    {c \in [High : 1..MaxPrice, Low : 1..MaxPrice, Close : 1..MaxPrice] :
        /\ c.Low <= c.Close /\ c.Close <= c.High
        /\ c.High - c.Close = c.Close - c.Low
        /\ c.High - c.Close <= 1}

\* candles that did not move within the bar
FlatCandles == {c \in Candles : c.High = c.Low}

Windows(n, alphabet) == [0..(n - 1) -> alphabet]

\* closes 100..109, high = close + 0.5, low = close - 0.5, in units of 0.5
FixedWindow ==
    [i \in 0..9 |-> [High |-> 2 * (100 + i) + 1, Low |-> 2 * (100 + i) - 1,
                     Close |-> 2 * (100 + i)]]

\* the windows chandelier_exit is called on directly
TestWindows == UNION {Windows(n, Candles) : n \in 0..MaxLen}

\* the windows in which every bar has high = low = close = one price
ConstantWindows ==
    {[i \in 0..(n - 1) |-> c] : n \in 0..(2 * MaxLen), c \in FlatCandles}

\* the bodies the Kraken endpoint answers with
Responses ==
    {[kind |-> k, raw |-> << >>] : k \in FailureKinds}
    \cup {[kind |-> "candles", raw |-> w] :
            w \in UNION {Windows(n, FlatCandles) : n \in 0..(period + MinExtraCandles)}}

----------------------------------------------------------------------------
(* The run of the script: main -> check_signals -> fetch_data,             *)
(* chandelier_exit, send_telegram.                                         *)

Init ==
    /\ entry = "main"
    /\ pc = "start"
    /\ period \in Periods
    /\ mult \in Multipliers
    /\ useClose = USE_CLOSE
    /\ awaitConfirm \in BOOLEAN
    /\ creds \in BOOLEAN
    /\ fetch = "pending"
    /\ df = None
    /\ result = None
    /\ row = None
    /\ msg = ""
    /\ posts = << >>
    /\ delivery = << >>

\* main: returns at once when the token or the chat id is missing
Main ==
    /\ pc = "start"
    /\ entry = "main"
    /\ pc' = IF creds THEN "fetch" ELSE "done"
    /\ UNCHANGED <<entry, period, mult, useClose, awaitConfirm, creds, fetch, df,
                   result, row, msg, posts, delivery>>

\* df = fetch_data()
FetchData ==
    /\ pc = "fetch"
    /\ \E resp \in Responses :
          /\ df' = fetch_data(resp)
          /\ fetch' = FetchOutcome(resp)
    /\ pc' = "fetched"
    /\ UNCHANGED <<entry, period, mult, useClose, awaitConfirm, creds, result, row,
                   msg, posts, delivery>>

\* if df is None: return
CheckFetched ==
    /\ pc = "fetched"
    /\ pc' = IF df.isNone THEN "done" ELSE "compute"
    /\ UNCHANGED <<entry, period, mult, useClose, awaitConfirm, creds, fetch, df,
                   result, row, msg, posts, delivery>>

\* result = chandelier_exit(df)
ChandelierExit ==
    /\ pc = "compute"
    /\ result' = Some(chandelier_exit(df.val))
    /\ pc' = IF entry = "main" THEN "select" ELSE "done"
    /\ UNCHANGED <<entry, period, mult, useClose, awaitConfirm, creds, fetch, df,
                   row, msg, posts, delivery>>

\* row = result.iloc[idx] and the branch on its signals
SelectRow ==
    /\ pc = "select"
    /\ LET r   == result.val
           idx == RowIndex(Len0(r.dir))
           sel == [index |-> idx, buySignal |-> r.buySignal[idx],
                   sellSignal |-> r.sellSignal[idx]]
       IN  /\ row' = Some(sel)
           /\ msg' = Alert(sel)
           /\ pc' = IF Alert(sel) = "" THEN "done" ELSE "send"
    /\ UNCHANGED <<entry, period, mult, useClose, awaitConfirm, creds, fetch, df,
                   result, posts, delivery>>

\* send_telegram(msg): one requests.post, whose failure is only printed
SendTelegram ==
    /\ pc = "send"
    /\ \E outcome \in {"200", "non200", "exception"} :
          delivery' = Append(delivery, outcome)
    /\ posts' = Append(posts, msg)
    /\ pc' = "done"
    /\ UNCHANGED <<entry, period, mult, useClose, awaitConfirm, creds, fetch, df,
                   result, row, msg>>

Next ==
    \/ Main
    \/ FetchData
    \/ CheckFetched
    \/ ChandelierExit
    \/ SelectRow
    \/ SendTelegram

Spec == Init /\ [][Next]_vars

----------------------------------------------------------------------------
(* chandelier_exit called on its own, on any window and configuration.     *)

InitCE ==
    /\ entry = "chandelier_exit"
    /\ pc = "compute"
    /\ \/ /\ \E c \in Settings :
                /\ period = c.period
                /\ mult = c.mult
                /\ useClose = c.useClose
          /\ df \in {Some(w) : w \in TestWindows}
       \/ /\ \E c \in AllSettings :
                /\ period = c.period
                /\ mult = c.mult
                /\ useClose = c.useClose
          /\ df \in {Some(w) : w \in ConstantWindows}
       \/ /\ period = ATR_PERIOD
          /\ mult = ATR_MULT
          /\ useClose = USE_CLOSE
          /\ df = Some(FixedWindow)
    /\ awaitConfirm = AWAIT_BAR_CONFIRM
    /\ creds = TRUE
    /\ fetch = "pending"
    /\ result = None
    /\ row = None
    /\ msg = ""
    /\ posts = << >>
    /\ delivery = << >>

NextCE == ChandelierExit

SpecCE == InitCE /\ [][NextCE]_vars

----------------------------------------------------------------------------
(* What the claims read: the window, the frame returned for it, and the    *)
(* candidate stops ls[i] = highestRef[i] - multiplier * atr[i] and         *)
(* ss[i] = lowestRef[i] + multiplier * atr[i] of every computed index.     *)

Returned == ~result.isNone
Window == df.val
Frame == result.val
WinLen == Len0(Window)
Computed == period..(WinLen - 1)
AfterFirst == (period + 1)..(WinLen - 1)
CloseAt(i) == Window[i].Close * Scale(Window)
LongAt(i) == Frame.longStop[i].v
ShortAt(i) == Frame.shortStop[i].v
Candidates ==
    LET a == atrBand(Window)
        h == highest(Window)
        l == lowest(Window)
    IN  [ls |-> [i \in Computed |-> h[i].v - a[i]],
         ss |-> [i \in Computed |-> l[i].v + a[i]]]

\* the previous index's stop, or the current candidate when it is undefined
PrevShort(i, cand) == IF Frame.shortStop[i - 1].nan THEN cand.ss[i] ELSE ShortAt(i - 1)
PrevLong(i, cand) == IF Frame.longStop[i - 1].nan THEN cand.ls[i] ELSE LongAt(i - 1)

----------------------------------------------------------------------------
\* C1: at every computed index the direction is +1 when the close is above
\* the previous short stop, otherwise -1 when it is below the previous long
\* stop, otherwise the previous direction (the stops seeded with the current
\* candidates when undefined); so a bar that meets both flip conditions is +1.
C1_DirectionOrder ==
    Returned =>
        LET cand == Candidates
        IN  \A i \in Computed :
                /\ Frame.dir[i] =
                      (IF CloseAt(i) > PrevShort(i, cand) THEN 1
                       ELSE IF CloseAt(i) < PrevLong(i, cand) THEN -1
                       ELSE Frame.dir[i - 1])
                /\ (CloseAt(i) > PrevShort(i, cand) /\ CloseAt(i) < PrevLong(i, cand))
                      => Frame.dir[i] = 1

\* a bar that meets both flip conditions and is +1
C1_Witness ==
    /\ Returned
    /\ \E i \in AfterFirst :
          /\ CloseAt(i) > ShortAt(i - 1)
          /\ CloseAt(i) < LongAt(i - 1)
          /\ Frame.dir[i] = 1

\* C2: past the first computed index, the long stop is max(ls, previous long
\* stop) when the previous close is above the previous long stop, hence never
\* falls along a run of such bars; otherwise it is the candidate ls.
C2_LongRatchet ==
    Returned =>
        LET cand == Candidates
        IN  /\ \A i \in AfterFirst :
                  IF CloseAt(i - 1) > LongAt(i - 1)
                  THEN /\ LongAt(i) = Max2(cand.ls[i], LongAt(i - 1))
                       /\ LongAt(i) >= LongAt(i - 1)
                  ELSE LongAt(i) = cand.ls[i]
            /\ \A a \in Computed : \A b \in Computed :
                  (a < b /\ \A k \in (a + 1)..b : CloseAt(k - 1) > LongAt(k - 1))
                      => LongAt(a) <= LongAt(b)

\* one window in which the ratchet holds the stop above its candidate at one
\* bar and the stop is reset below its previous value at another
C2_Witness ==
    /\ Returned
    /\ LET cand == Candidates
       IN  /\ \E i \in AfterFirst :
                 /\ CloseAt(i - 1) > LongAt(i - 1)
                 /\ cand.ls[i] < LongAt(i - 1)
                 /\ LongAt(i) = LongAt(i - 1)
           /\ \E j \in AfterFirst :
                 /\ CloseAt(j - 1) <= LongAt(j - 1)
                 /\ LongAt(j) < LongAt(j - 1)

\* C3: past the first computed index, the short stop is min(ss, previous
\* short stop) when the previous close is below the previous short stop,
\* hence never rises along a run of such bars; otherwise it is the candidate
\* ss.  At the first computed index both stops are their candidates.
C3_ShortRatchet ==
    Returned =>
        LET cand == Candidates
        IN  /\ \A i \in AfterFirst :
                  IF CloseAt(i - 1) < ShortAt(i - 1)
                  THEN /\ ShortAt(i) = Min2(cand.ss[i], ShortAt(i - 1))
                       /\ ShortAt(i) <= ShortAt(i - 1)
                  ELSE ShortAt(i) = cand.ss[i]
            /\ \A a \in Computed : \A b \in Computed :
                  (a < b /\ \A k \in (a + 1)..b : CloseAt(k - 1) < ShortAt(k - 1))
                      => ShortAt(a) >= ShortAt(b)
            /\ period \in Computed =>
                  /\ LongAt(period) = cand.ls[period]
                  /\ ShortAt(period) = cand.ss[period]

\* one window in which the ratchet holds the short stop below its candidate at
\* one bar and the stop is reset above its previous value at another
C3_Witness ==
    /\ Returned
    /\ LET cand == Candidates
       IN  /\ \E i \in AfterFirst :
                 /\ CloseAt(i - 1) < ShortAt(i - 1)
                 /\ cand.ss[i] > ShortAt(i - 1)
                 /\ ShortAt(i) = ShortAt(i - 1)
           /\ \E j \in AfterFirst :
                 /\ CloseAt(j - 1) >= ShortAt(j - 1)
                 /\ ShortAt(j) > ShortAt(j - 1)

\* C4 as stated: past the first computed index, BUY iff the close is above the
\* previous short stop and the previous direction is not +1, and SELL iff the
\* close is below the previous long stop and the previous direction is not -1.
C4_AsStated ==
    Returned =>
        \A i \in AfterFirst :
            /\ Frame.buySignal[i] <=>
                  (CloseAt(i) > ShortAt(i - 1) /\ Frame.dir[i - 1] # 1)
            /\ Frame.sellSignal[i] <=>
                  (CloseAt(i) < LongAt(i - 1) /\ Frame.dir[i - 1] # -1)

\* C4 as amended: the SELL condition also needs the close not to be above the
\* previous short stop, since the bullish flip is tested first.
C4_SignalConditions ==
    Returned =>
        \A i \in AfterFirst :
            /\ Frame.buySignal[i] <=>
                  (CloseAt(i) > ShortAt(i - 1) /\ Frame.dir[i - 1] # 1)
            /\ Frame.sellSignal[i] <=>
                  (/\ CloseAt(i) < LongAt(i - 1)
                   /\ ~(CloseAt(i) > ShortAt(i - 1))
                   /\ Frame.dir[i - 1] # -1)

\* a bullish bar followed by a bar below the previous long stop and above the
\* previous short stop, which carries no SELL
C4_Witness ==
    /\ Returned
    /\ \E i \in AfterFirst :
          /\ CloseAt(i) < LongAt(i - 1)
          /\ CloseAt(i) > ShortAt(i - 1)
          /\ Frame.dir[i - 1] = 1
          /\ ~Frame.sellSignal[i]
          /\ ~Frame.buySignal[i]

\* C5: no index of the returned frame carries both a BUY and a SELL, and the
\* row check_signals reads never carries both.
C5_NeverBoth ==
    /\ Returned => \A i \in DOMAIN Frame.dir :
                      ~(Frame.buySignal[i] /\ Frame.sellSignal[i])
    /\ ~row.isNone => ~(row.val.buySignal /\ row.val.sellSignal)

\* check_signals read a row carrying a BUY from a frame that also holds a SELL
C5_Witness ==
    /\ ~row.isNone
    /\ row.val.buySignal
    /\ \E j \in DOMAIN Frame.dir : Frame.sellSignal[j]

\* C6: with the direction before index 0 taken as +1, a BUY sits exactly on
\* the first bar of each run of +1 that follows a -1 bar and a SELL exactly on
\* the first bar of each run of -1 that follows a +1 bar; so BUY and SELL
\* alternate and every BUY has a SELL before it.
C6_EdgeTriggers ==
    Returned =>
        LET idx == DOMAIN Frame.dir
        IN  /\ \A i \in idx :
                  /\ Frame.buySignal[i] <=>
                        (i > 0 /\ Frame.dir[i] = 1 /\ Frame.dir[i - 1] = -1)
                  /\ Frame.sellSignal[i] <=>
                        (Frame.dir[i] = -1 /\ (i = 0 \/ Frame.dir[i - 1] = 1))
            /\ \A i \in idx : \A j \in idx :
                  (i < j /\ Frame.buySignal[i] /\ Frame.buySignal[j])
                      => \E k \in (i + 1)..(j - 1) : Frame.sellSignal[k]
            /\ \A i \in idx : \A j \in idx :
                  (i < j /\ Frame.sellSignal[i] /\ Frame.sellSignal[j])
                      => \E k \in (i + 1)..(j - 1) : Frame.buySignal[k]
            /\ \A j \in idx :
                  Frame.buySignal[j] => \E k \in 0..(j - 1) : Frame.sellSignal[k]

\* a SELL, a bearish run of two bars, a BUY, and a bullish bar after it that
\* carries no second BUY
C6_Witness ==
    /\ Returned
    /\ \E i \in DOMAIN Frame.dir :
          /\ i + 3 \in DOMAIN Frame.dir
          /\ Frame.sellSignal[i]
          /\ Frame.dir[i + 1] = -1
          /\ Frame.buySignal[i + 2]
          /\ Frame.dir[i + 3] = 1
          /\ ~Frame.buySignal[i + 3]

\* the true range of bar i >= 1 of the window, written out
TrueRangeOf(i) ==
    Max2(Max2(Window[i].High - Window[i].Low,
              Abs(Window[i].High - Window[i - 1].Close)),
         Abs(Window[i].Low - Window[i - 1].Close))

IsFixedRun ==
    /\ Returned
    /\ Window = FixedWindow
    /\ period = 1 /\ mult = 2 /\ useClose

\* C7 as stated (prices in units of 0.5): on the fixed 10-bar window the
\* direction is +1 and no signal occurs anywhere, the period-1 ATR is the true
\* range, and longStop[i] = close[i] - 0.5 - 2 * ATR[i] at every i >= 1.
C7_AsStated ==
    IsFixedRun =>
        /\ \A i \in 0..9 :
              Frame.dir[i] = 1 /\ ~Frame.buySignal[i] /\ ~Frame.sellSignal[i]
        /\ \A i \in 1..9 :
              /\ compute_atr(Window, 1)[i] = TrueRangeOf(i)
              /\ LongAt(i) = Window[i].Close - 1 - 2 * TrueRangeOf(i)

\* C7 as amended: the same, with longStop[i] = close[i] - 2 * ATR[i].
C7_FixedWindow ==
    IsFixedRun =>
        /\ \A i \in 0..9 :
              Frame.dir[i] = 1 /\ ~Frame.buySignal[i] /\ ~Frame.sellSignal[i]
        /\ \A i \in 1..9 :
              /\ compute_atr(Window, 1)[i] = TrueRangeOf(i)
              /\ LongAt(i) = Window[i].Close - 2 * TrueRangeOf(i)

\* the fixed window has been run: its last long stop is 109 - 3 = 106
C7_Witness ==
    /\ IsFixedRun
    /\ LongAt(9) = 2 * 106

\* every bar of the window is high = low = close = one price
IsConstantWindow ==
    \A i \in DOMAIN Window :
        /\ Window[i] = Window[0]
        /\ Window[0].High = Window[0].Close
        /\ Window[0].Low = Window[0].Close

\* C8: on a window of one constant price with at least period + 1 bars, the
\* ATR is 0 at every index, both stops equal the price at every computed
\* index, the direction is +1 everywhere and no signal occurs.
C8_ConstantPrice ==
    (Returned /\ WinLen >= period + 1 /\ IsConstantWindow) =>
        /\ \A i \in DOMAIN Window :
              /\ compute_atr(Window, period)[i] = 0
              /\ Frame.dir[i] = 1
              /\ ~Frame.buySignal[i]
              /\ ~Frame.sellSignal[i]
        /\ \A i \in Computed :
              /\ ~Frame.longStop[i].nan /\ LongAt(i) = CloseAt(i)
              /\ ~Frame.shortStop[i].nan /\ ShortAt(i) = CloseAt(i)

\* a constant window, longer than the script's minimum, run under the largest
\* period and multiplier of the bounds
C8_Witness ==
    /\ Returned
    /\ IsConstantWindow
    /\ period = MaxPeriod /\ mult = MaxMult
    /\ WinLen > period + MinExtraCandles
    /\ Window[0].Close = MaxPrice

\* what a failed fetch leaves behind: no window, no frame, no row, no post
C9_State ==
    fetch \notin {"pending", "ok"} =>
        /\ df.isNone
        /\ result.isNone
        /\ row.isNone
        /\ posts = << >>
        /\ delivery = << >>
        /\ pc \in {"fetched", "done"}

\* C9: when fetch_data fails or receives too few candles, check_signals holds
\* no window, never runs chandelier_exit, never posts, and its next step is
\* the normal end of the run.
C9_SkipsCycle ==
    /\ []C9_State
    /\ [][(pc = "fetched" /\ fetch # "ok") => pc' = "done"]_vars

\* a run that ended after receiving too few candles
C9_Witness == fetch = "short" /\ pc = "done"

\* C10: a run that fetched a window reads exactly the second-to-last row when
\* AWAIT_BAR_CONFIRM is set and the last row otherwise; it posts at most once,
\* and exactly when that row carries a BUY (a BUY message) or a SELL (a SELL
\* message); whatever the post's outcome, it is the only one and the run ends.
C10_OneRowOnePost ==
    /\ Len(posts) <= 1
    /\ Len(delivery) = Len(posts)
    /\ delivery # << >> => pc = "done"
    /\ (fetch = "ok" /\ pc = "done") =>
          LET idx == IF awaitConfirm THEN WinLen - 2 ELSE WinLen - 1
          IN  /\ ~row.isNone
              /\ row.val.index = idx
              /\ Len(posts) = 1 <=> (Frame.buySignal[idx] \/ Frame.sellSignal[idx])
              /\ Frame.buySignal[idx] => posts = <<"BUY">>
              /\ Frame.sellSignal[idx] => posts = <<"SELL">>

\* a failed SELL post for the second-to-last row, while the last row carries
\* a BUY that is not notified
C10_Witness ==
    /\ pc = "done"
    /\ awaitConfirm
    /\ posts = <<"SELL">>
    /\ delivery = <<"non200">>
    /\ Frame.buySignal[WinLen - 1]

====
